---- MODULE Spec2Model ----
(***************************************************************************)
(* Submission pipeline of the gambling-risk predictor app.                 *)
(*                                                                         *)
(* Two builds of the App component are in the repository: src/App.tsx and  *)
(* src/unnamed/part_000.  They share onSubmit's structure and differ in    *)
(* the yup schema, in the string -> number conversion of the request body, *)
(* in whether the button is disabled while loading, and in what is         *)
(* rendered.  The variable `variant` says which build is running.          *)
(*                                                                         *)
(* Numbers are kept in tenths (2.5 is 25) inside a tagged value            *)
(* [t |-> tag, v |-> tenths]; the tags are the JavaScript values the code  *)
(* can meet: "num" (finite), "nan", "inf", "undef", "str" (a string that   *)
(* is not a number), "null" (JSON null).                                   *)
(***************************************************************************)
EXTENDS Integers, FiniteSets, Sequences, TLC

VARIABLES
    variant,     \* the build that runs: "App.tsx" or "part_000"
    loading,     \* useState(false)
    result,      \* useState(null): the JSON last given to setResult
    errors,      \* the keys of formState.errors
    calls,       \* the calls of onSubmit suspended at an await
    formValues,  \* the form values handleSubmit last read
    badge,       \* the label of the risk badge last rendered (App.tsx)
    submits,     \* history: how many times handleSubmit ran
    latest,      \* history: the call of onSubmit started last
    resultOf     \* history: the call whose response is in result

vars == <<variant, loading, result, errors, calls, formValues, badge,
          submits, latest, resultOf>>

----------------------------------------------------------------------------
(* Bounds of the model *)

\* handleSubmit is run at most this many times in one behaviour
MaxSubmits == 2

\* the largest cluster number the classifier is tried on
MaxCluster == 7

----------------------------------------------------------------------------
(* The two builds of the App component *)

Builds == {"part_000", "App.tsx"}

----------------------------------------------------------------------------
(* JavaScript values *)

Num(n) == [t |-> "num", v |-> n]
NaN == [t |-> "nan", v |-> 0]
PosInfinity == [t |-> "inf", v |-> 0]
Undefined == [t |-> "undef", v |-> 0]
Str == [t |-> "str", v |-> 0]
JsonNull == [t |-> "null", v |-> 0]

\* Number(value): the empty string is 0, text that is no numeral is NaN
Number(s) ==
    CASE s = "" -> Num(0)
      [] s = "12" -> Num(120)
      [] s = "-5" -> Num(-50)
      [] s = "2.5" -> Num(25)
      [] s = "Infinity" -> PosInfinity
      [] OTHER -> NaN

isNaN(x) == x.t = "nan"

\* typeof value === "string" as yup's string schema tests it
IsStringType(x) == x.t = "str"

\* Number.isInteger
IsInteger(x) == x.t = "num" /\ x.v % 10 = 0

----------------------------------------------------------------------------
(* The form and its yup schema *)

NumericFields == {"Bet", "TotalGames", "TotalProfit", "TotalLosses", "CashedOut"}
Fields == NumericFields \cup {"model_name"}

\* .oneOf([...]) of model_name, the same list in both builds
ModelNames == {"logreg", "randforest", "gradboost", "svm_rbf", "mlp"}

\* App.tsx offers the model as chips, one per entry of modelOptions
modelOptions == {"logreg", "randforest", "gradboost", "svm_rbf", "mlp"}

\* part_000 renders model_name as a free text input; the texts tried there
ModelTexts == {"logreg", "mlp", "bogus"}

\* the form values handleSubmit can find, per build
RawInputs(v) ==
    [Bet : {"abc", "2.5", "Infinity"},
     TotalGames : {"", "12", "-5", "2.5"},
     TotalProfit : {"12"},
     TotalLosses : {"12", "abc"},
     CashedOut : {"12", ""},
     model_name : IF v = "App.tsx" THEN modelOptions \cap ModelTexts
                  ELSE ModelTexts]

\* App.tsx: yup.string().required().transform(v => isNaN(Number(v)) ? undefined
\* : Number(v)).  The transform runs in the cast, before the tests, so the
\* tests see undefined or a number, never the text.
StringSchemaCast(s) == IF isNaN(Number(s)) THEN Undefined ELSE Number(s)

\* The tests of a yup string schema on the cast value: required() rejects
\* undefined, the type test rejects a defined value that is not a string.
StringSchemaOk(x) == x.t # "undef" /\ IsStringType(x)

\* part_000: the cast of yup.number(): the empty text is NaN, other text is
\* +text
NumberSchemaCast(s) == IF s = "" THEN NaN ELSE Number(s)

\* The type test of a yup number schema: a number that is not NaN (Infinity
\* passes); required() then holds, the value being defined.
NumberSchemaOk(x) == x.t \in {"num", "inf"}

ModelNameOk(m) == m \in ModelNames

\* the cast of one numeric field
CastField(v, f, s) ==
    IF v = "App.tsx" THEN StringSchemaCast(s) ELSE NumberSchemaCast(s)

\* does the field pass its rule of the schema
FieldOk(v, f, s) ==
    IF f = "model_name" THEN ModelNameOk(s)
    ELSE IF v = "App.tsx" THEN StringSchemaOk(CastField(v, f, s))
    ELSE /\ NumberSchemaOk(CastField(v, f, s))
         /\ (f = "TotalGames" => IsInteger(CastField(v, f, s)))

\* schema without the .oneOf([...]) test of model_name
schemaWithoutOneOf(v, raw) == {f \in NumericFields : ~FieldOk(v, f, raw[f])}

\* the keys of formState.errors after the resolver ran (yupResolver validates
\* with abortEarly: false, so every failing field is reported)
schema(v, raw) == {f \in Fields : ~FieldOk(v, f, raw[f])}

\* the values the resolver hands to onSubmit: the cast form values
Values(v, raw) ==
    [f \in Fields |-> IF f = "model_name" THEN raw[f] ELSE CastField(v, f, raw[f])]

----------------------------------------------------------------------------
(* onSubmit: the request body *)

\* Number(x) of a value that is already a number (App.tsx)
ToNumber(x) == IF x.t \in {"num", "inf"} THEN x ELSE NaN

\* parseFloat(x) of a number: its decimal text read back (part_000)
parseFloat(x) == IF x.t \in {"num", "inf"} THEN x ELSE NaN

\* parseInt(x, 10) of a number: the leading integer digits of its decimal
\* text, so the fraction is dropped and "Infinity" yields NaN (part_000)
parseInt(x) ==
    IF x.t # "num" THEN NaN
    ELSE IF x.v >= 0 THEN Num((x.v \div 10) * 10)
    ELSE Num(-(((-x.v) \div 10) * 10))

\* JSON.stringify of a number: NaN and the infinities are written as null
Stringify(x) == IF x.t = "num" THEN x ELSE JsonNull

\* the numeric conversion onSubmit applies to a field, per build
Convert(v, f, x) ==
    IF v = "App.tsx" THEN ToNumber(x)
    ELSE IF f = "TotalGames" THEN parseInt(x) ELSE parseFloat(x)

\* body: JSON.stringify({...data, Bet: ..., TotalGames: ..., ...})
Body(v, data) ==
    [f \in Fields |->
        IF f = "model_name" THEN data[f] ELSE Stringify(Convert(v, f, data[f]))]

----------------------------------------------------------------------------
(* The server's answers and what is rendered of them *)

Whole(n) == Num(n * 10)

Object(c, p) == [kind |-> "object", cluster |-> c, confidence |-> p]

\* useState(null)
Null == [kind |-> "null", cluster |-> Undefined, confidence |-> Undefined]

\* the JSON documents res.json() can resolve to: well-formed predictions,
\* out-of-range confidences, wrong types, missing fields and null
ResponseBodies ==
    { Object(Whole(0), Num(5)), Object(Whole(1), Num(10)),
      Object(Whole(2), Num(14)), Object(Whole(7), Num(2)),
      Object(Whole(1), Num(-2)), Object(Num(15), Num(0)),
      Object(Str, Undefined), Object(Undefined, Num(5)), Null }

\* the statuses fetch can resolve with; fetch resolves on any status
Statuses == {200, 500}

\* getRiskLevel with the fallback of a missing key lost: the last level is
\* returned for every cluster that is not 0 or 1
getRiskLevelNoFallback(cluster) ==
    CASE cluster = Whole(0) -> "Low Risk"
      [] cluster = Whole(1) -> "Medium Risk"
      [] OTHER -> "High Risk"

\* getRiskLevel: levels[cluster] || Unknown; the keys of levels are 0, 1, 2
getRiskLevel(cluster) ==
    CASE cluster = Whole(0) -> "Low Risk"
      [] cluster = Whole(1) -> "Medium Risk"
      [] cluster = Whole(2) -> "High Risk"
      [] OTHER -> "Unknown"

\* result.confidence * 100; a value that is no number gives NaN
Times100(x) ==
    CASE x.t = "num" -> Num(x.v * 100)
      [] x.t = "inf" -> PosInfinity
      [] OTHER -> NaN

\* {result && (...)}: the result card is rendered for a truthy result
ResultShown == result.kind = "object"

\* the text of the confidence line: (result.confidence * 100).toFixed(..)
ConfidencePercent == Times100(result.confidence)

\* disabled={loading}: App.tsx disables the button while loading; part_000
\* passes only loading={loading}, which shows a spinner and disables nothing
ButtonDisabled == variant = "App.tsx" /\ loading

----------------------------------------------------------------------------
(* The component's state and its handlers *)

\* defaultValues of useForm
defaultValues ==
    [f \in Fields |-> IF f = "model_name" THEN "logreg" ELSE ""]

\* one call of onSubmit that has not finished: the request it sent and the
\* await it is suspended at
Call(n, b) == [id |-> n, body |-> b, pc |-> "fetch", status |-> 0]

Init ==
    /\ variant \in Builds
    /\ loading = FALSE
    /\ result = Null
    /\ errors = {}
    /\ calls = {}
    /\ submits = 0
    /\ latest = 0
    /\ resultOf = 0
    /\ formValues = defaultValues
    /\ badge = ""

\* onPress={handleSubmit(onSubmit)}: the resolver validates the form values;
\* with errors nothing else happens, without errors onSubmit runs up to its
\* first await: setLoading(true) and fetch(...)
handleSubmit(raw) ==
    /\ ~ButtonDisabled
    /\ submits < MaxSubmits
    /\ formValues' = raw
    /\ submits' = submits + 1
    /\ errors' = schema(variant, raw)
    /\ IF schema(variant, raw) = {}
       THEN /\ loading' = TRUE
            /\ calls' = calls \cup
                 {Call(submits + 1, Body(variant, Values(variant, raw)))}
            /\ latest' = submits + 1
       ELSE UNCHANGED <<loading, calls, latest>>
    /\ UNCHANGED <<variant, result, resultOf, badge>>

\* await fetch(...) resolves: any status resolves it, res.ok is not read;
\* onSubmit goes on to await res.json()
fetchResolve(c, st) ==
    /\ c.pc = "fetch"
    /\ calls' = (calls \ {c}) \cup {[c EXCEPT !.pc = "json", !.status = st]}
    /\ UNCHANGED <<variant, loading, result, errors, submits, latest,
                   resultOf, formValues, badge>>

\* await fetch(...) rejects (no network, reset, timeout): catch logs the
\* error, finally runs setLoading(false)
fetchReject(c) ==
    /\ c.pc = "fetch"
    /\ calls' = calls \ {c}
    /\ loading' = FALSE
    /\ UNCHANGED <<variant, result, errors, submits, latest, resultOf,
                   formValues, badge>>

\* the risk badge of the result card, which only App.tsx renders and only
\* for a truthy result: getRiskLevel(result.cluster).label
Badge(v, json) ==
    IF v = "App.tsx" /\ json.kind = "object" THEN getRiskLevel(json.cluster)
    ELSE ""

\* await res.json() resolves: setResult(json), then finally
\* setLoading(false); the component renders again
jsonResolve(c, json) ==
    /\ c.pc = "json"
    /\ calls' = calls \ {c}
    /\ result' = json
    /\ resultOf' = c.id
    /\ loading' = FALSE
    /\ badge' = Badge(variant, json)
    /\ UNCHANGED <<variant, errors, submits, latest, formValues>>

\* await res.json() rejects (the body is not JSON): catch, then finally
jsonReject(c) ==
    /\ c.pc = "json"
    /\ calls' = calls \ {c}
    /\ loading' = FALSE
    /\ UNCHANGED <<variant, result, errors, submits, latest, resultOf,
                   formValues, badge>>

Next ==
    \/ \E raw \in RawInputs(variant) : handleSubmit(raw)
    \/ \E c \in calls, st \in Statuses : fetchResolve(c, st)
    \/ \E c \in calls : fetchReject(c)
    \/ \E c \in calls, json \in ResponseBodies : jsonResolve(c, json)
    \/ \E c \in calls : jsonReject(c)

Spec == Init /\ [][Next]_vars

----------------------------------------------------------------------------
(* The classifier on its own: getRiskLevel over the clusters a result can  *)
(* carry, applied as the result card of App.tsx applies it.                *)

Clusters ==
    {Whole(n) : n \in -2 .. MaxCluster} \cup {Num(15), NaN, Str, Undefined}

Confidences == {Num(-2), Num(0), Num(5), Num(10), Num(14)}

ClassifierInit ==
    /\ variant = "App.tsx"
    /\ loading = FALSE
    /\ result \in {Object(c, p) : c \in Clusters, p \in Confidences}
    /\ errors = {}
    /\ calls = {}
    /\ submits = 0
    /\ latest = 0
    /\ resultOf = 0
    /\ formValues = defaultValues
    /\ badge = ""

\* the result card is rendered for the result
renderResult ==
    /\ ResultShown
    /\ badge' = Badge(variant, result)
    /\ UNCHANGED <<variant, loading, result, errors, calls, formValues,
                   submits, latest, resultOf>>

ClassifierNext == renderResult

ClassifierSpec == ClassifierInit /\ [][ClassifierNext]_vars

----------------------------------------------------------------------------
(* Claims *)

\* C1: a response of a superseded submission never changes the displayed
\* result: whenever result changes, the response that changed it belongs to
\* the submission started last.
C1_StaleResponseDiscarded ==
    [][result' # result => resultOf' = latest']_vars

\* C2: a submit whose input fails validation (the schema reports an error;
\* in particular model_name is "bogus", or a numeric field is empty or not
\* numeric) issues no request and never sets loading: the errors are set and
\* nothing else of the view changes.
C2_InvalidInputSendsNothing ==
    [][ LET raw == formValues'
            named == \/ raw["model_name"] = "bogus"
                     \/ \E f \in NumericFields : raw[f] \in {"", "abc"}
        IN  (submits' = submits + 1 /\ (named \/ schema(variant, raw) # {}))
            => /\ calls' = calls
               /\ loading' = loading
               /\ result' = result
               /\ errors' # {} ]_vars

\* C2 witness: handleSubmit ran on a form whose model_name is "bogus" and
\* left the errors set, no call started and loading false.
C2_Witness ==
    /\ submits > 0
    /\ formValues["model_name"] = "bogus"
    /\ "model_name" \in errors
    /\ calls = {}
    /\ ~loading

\* C3: a response body that is not an object with a non-negative integer
\* cluster and a numeric confidence is never rendered as a result.
C3_MalformedBodyNeverShown ==
    ResultShown =>
        /\ IsInteger(result.cluster) /\ result.cluster.v >= 0
        /\ result.confidence.t = "num"

\* C4: when the latest submission's request fails (fetch rejects) or is
\* answered with a non-2xx status, no result is shown once it has completed.
C4_TransportFailureShowsNoResult ==
    [][ \A c \in calls :
            ( /\ c.id = latest
              /\ \A d \in calls' : d.id # c.id
              /\ (c.pc = "fetch" \/ c.status \notin 200 .. 299) )
            => ~ResultShown' ]_vars

\* C5: whenever a result with a numeric confidence is displayed, the
\* displayed percentage lies in [0, 100] (0 .. 1000 tenths of a percent).
C5_ConfidenceWithinRange ==
    (ResultShown /\ result.confidence.t = "num")
        => ConfidencePercent.v \in 0 .. 1000

\* C6: every request sent carries finite numbers, a TotalGames that is an
\* integer >= 0 and a model_name of the enumeration.
C6_RequestBodyValid ==
    \A c \in calls :
        /\ \A f \in NumericFields : c.body[f].t = "num"
        /\ IsInteger(c.body["TotalGames"]) /\ c.body["TotalGames"].v >= 0
        /\ c.body["model_name"] \in ModelNames

\* C7: the rendered tier is Low for cluster 0, Medium for 1, High for 2 and
\* Unknown for every other cluster.
C7_ClassificationTotal ==
    badge # "" =>
        LET c == result.cluster
        IN  /\ c = Whole(0) => badge = "Low Risk"
            /\ c = Whole(1) => badge = "Medium Risk"
            /\ c = Whole(2) => badge = "High Risk"
            /\ c \notin {Whole(0), Whole(1), Whole(2)} => badge = "Unknown"

\* C7 witness: a cluster outside 0..2 was classified, as Unknown.
C7_Witness == result.cluster = Whole(MaxCluster) /\ badge = "Unknown"

\* C8: loading (Submitting) and a displayed result (Success) are never
\* observable together.
C8_OneViewState == ~(loading /\ ResultShown)

\* C9: when the submitted form has a malformed field (a numeric field that
\* is not a finite number, a TotalGames that is not an integer >= 0, a
\* model_name outside the enumeration), the errors name exactly the
\* malformed fields.
C9_ErrorsAreExactlyMalformed ==
    LET wellFormed(f, s) ==
            IF f = "model_name" THEN s \in ModelNames
            ELSE /\ s # ""
                 /\ Number(s).t = "num"
                 /\ (f = "TotalGames" =>
                        IsInteger(Number(s)) /\ Number(s).v >= 0)
        malformed == {f \in Fields : ~wellFormed(f, formValues[f])}
    IN  (submits > 0 /\ malformed # {}) => errors = malformed

\* C10: loading is true exactly when a request is outstanding.
C10_LoadingIffOutstanding == loading <=> calls # {}

====
